---- MODULE Spec2Model ----
(***************************************************************************)
(* Model of the ReconciliationTool React component                         *)
(* (src/src/components/ReconciliationTool.jsx): the component state, the   *)
(* CSV upload handler with its row normalisation, the reconciliation run   *)
(* with its two timers, and reset.                                         *)
(*                                                                         *)
(* JavaScript values are tagged records: Null, Num(n), NaN, Bool(b) and    *)
(* Str(s), where s is a sequence of one-character strings, so that         *)
(* String(), trim(), toLowerCase() and parseFloat() are computed on the    *)
(* characters.  Amounts are integers in units of 0.005, so the tolerance   *)
(* 0.01 of the amount comparison is 2 units.                               *)
(***************************************************************************)
EXTENDS Integers, Sequences, FiniteSets, Bags

VARIABLES
    internalFile,           \* useState(null): the file shown for the internal side
    providerFile,           \* useState(null)
    internalData,           \* useState([]): normalised internal records
    providerData,           \* useState([])
    reconciliationResults,  \* useState(null)
    isProcessing,           \* useState(false)
    showResults,            \* useState(false)
    uploadErrors,           \* useState({internal: null, provider: null})
    parsing,                \* bag of Papa.parse calls whose callback is still to come
    runTimers,              \* the pending setTimeout(..., 2000) calls, oldest first, each
                            \* the records its closure holds
    revealTimer,            \* TRUE while the setTimeout(..., 300) is pending
    selected                \* history: per side, the file chosen last in the file
                            \* input since the last reset (e.target.files[0]);
                            \* recorded in SpecUpload, left as it is elsewhere

vars == <<internalFile, providerFile, internalData, providerData,
          reconciliationResults, isProcessing, showResults, uploadErrors,
          parsing, runTimers, revealTimer, selected>>

----------------------------------------------------------------------------
(* Bounds of the model *)

\* rows of the multi-row files
MaxRows == 2
\* Papa.parse calls in flight at once, in the whole component
MaxPending == 1
\* Papa.parse calls in flight at once, when only uploads and resets happen
MaxInFlight == 2

----------------------------------------------------------------------------
(* JavaScript values *)

Null == [t |-> "null"]
NaN == [t |-> "nan"]
Num(n) == [t |-> "num", n |-> n]
Bool(b) == [t |-> "bool", b |-> b]
Str(s) == [t |-> "str", s |-> s]

\* JavaScript truthiness, as used by `x ? :`, `x || y`, `x && y` and filter
Truthy(v) ==
    CASE v.t = "null" -> FALSE
      [] v.t = "nan"  -> FALSE
      [] v.t = "num"  -> v.n # 0
      [] v.t = "bool" -> v.b
      [] v.t = "str"  -> v.s # <<>>

Digits == <<"0", "1", "2", "3", "4", "5", "6", "7", "8", "9">>
UpperChars == <<"A", "B", "K", "N", "O">>
LowerChars == <<"a", "b", "k", "n", "o">>
Whitespace == {" "}

RECURSIVE NumToChars(_)
NumToChars(n) ==
    IF n < 10 THEN <<Digits[n + 1]>>
    ELSE NumToChars(n \div 10) \o <<Digits[(n % 10) + 1]>>

\* String(v), as a character sequence
String(v) ==
    CASE v.t = "str"  -> v.s
      [] v.t = "num"  -> NumToChars(v.n)
      [] v.t = "bool" -> IF v.b THEN <<"t", "r", "u", "e">>
                                ELSE <<"f", "a", "l", "s", "e">>
      [] v.t = "nan"  -> <<"N", "a", "N">>
      [] v.t = "null" -> <<"n", "u", "l", "l">>

LowerChar(c) ==
    IF \E i \in 1..Len(UpperChars) : UpperChars[i] = c
    THEN LowerChars[CHOOSE i \in 1..Len(UpperChars) : UpperChars[i] = c]
    ELSE c

\* String.prototype.toLowerCase
ToLowerCase(s) == [i \in 1..Len(s) |-> LowerChar(s[i])]

RECURSIVE TrimStart(_)
TrimStart(s) ==
    IF s # <<>> /\ Head(s) \in Whitespace THEN TrimStart(Tail(s)) ELSE s

RECURSIVE TrimEnd(_)
TrimEnd(s) ==
    IF s # <<>> /\ s[Len(s)] \in Whitespace
    THEN TrimEnd(SubSeq(s, 1, Len(s) - 1))
    ELSE s

\* String.prototype.trim
Trim(s) == TrimEnd(TrimStart(s))

IsDigit(c) == \E i \in 1..Len(Digits) : Digits[i] = c
DigitValue(c) == (CHOOSE i \in 1..Len(Digits) : Digits[i] = c) - 1

\* the value of the longest prefix of digits of s, read after the digits in acc
RECURSIVE DigitPrefix(_, _)
DigitPrefix(s, acc) ==
    IF s # <<>> /\ IsDigit(Head(s))
    THEN DigitPrefix(Tail(s), 10 * acc + DigitValue(Head(s)))
    ELSE acc

\* parseFloat(v): the argument is converted to a string, leading whitespace is
\* skipped, the longest numeric prefix is read; NaN when there is none
ParseFloat(v) ==
    LET s == TrimStart(String(v)) IN
    IF v.t = "num" THEN v
    ELSE IF s # <<>> /\ IsDigit(Head(s)) THEN Num(DigitPrefix(s, 0))
    ELSE NaN

----------------------------------------------------------------------------
(* Upload normalisation: handleFileUpload, the `complete` callback *)

Headers == {"transaction_reference", "amount", "status"}

\* a parsed row; a column the file does not have reads as Null (undefined)
Row(ref, amount, status) ==
    [transaction_reference |-> ref, amount |-> amount, status |-> status]

\* mutant: the status is trimmed but not lowercased
NormalizeRowKeepingCase(row) ==
    [transaction_reference |->
         Trim(String(IF Truthy(row.transaction_reference)
                     THEN row.transaction_reference
                     ELSE Str(<<>>))),
     amount |-> IF Truthy(row.amount) THEN ParseFloat(row.amount) ELSE Null,
     status |-> IF Truthy(row.status)
                THEN Str(Trim(String(row.status)))
                ELSE Null]

\* the object built by results.data.map
NormalizeRow(row) ==
    [transaction_reference |->
         Trim(String(IF Truthy(row.transaction_reference)
                     THEN row.transaction_reference
                     ELSE Str(<<>>))),
     amount |-> IF Truthy(row.amount) THEN ParseFloat(row.amount) ELSE Null,
     status |-> IF Truthy(row.status)
                THEN Str(Trim(ToLowerCase(String(row.status))))
                ELSE Null]

\* .filter(row => row.transaction_reference)
HasReference(record) == Truthy(Str(record.transaction_reference))

\* processedData
ProcessedData(rows) ==
    SelectSeq([i \in 1..Len(rows) |-> NormalizeRow(rows[i])], HasReference)

----------------------------------------------------------------------------
(* The reconciliation run: the body of the setTimeout callback *)

\* the 0.01 of `amountDiff > 0.01`, in units of 0.005
Tolerance == 2

\* Map.has on the map built by forEach(record => map.set(reference, record))
MapHas(data, ref) ==
    \E i \in 1..Len(data) : data[i].transaction_reference = ref

\* mutant: the first record set for a key is kept
MapGetFirst(data, ref) ==
    data[CHOOSE i \in 1..Len(data) :
            /\ data[i].transaction_reference = ref
            /\ \A j \in 1..(i - 1) : data[j].transaction_reference # ref]

\* Map.get on that map: a later set of the same key replaces the earlier one
MapGet(data, ref) ==
    data[CHOOSE i \in 1..Len(data) :
            /\ data[i].transaction_reference = ref
            /\ \A j \in (i + 1)..Len(data) : data[j].transaction_reference # ref]

\* the conversion of an amount to a number by the operator `-`: null is 0
ToNumber(v) == IF v.t = "null" THEN Num(0) ELSE v

\* Math.abs(a - b): NaN when either side is NaN
AmountDiff(a, b) ==
    LET x == ToNumber(a)
        y == ToNumber(b)
    IN  IF x.t = "num" /\ y.t = "num"
        THEN Num(IF x.n >= y.n THEN x.n - y.n ELSE y.n - x.n)
        ELSE NaN

\* mutant: the test is written as not (amountDiff <= 0.01), true of NaN
ExceedsToleranceNegated(amountDiff) ==
    ~(amountDiff.t = "num" /\ amountDiff.n <= Tolerance)

\* mutant: the comparison is >= instead of >
ExceedsToleranceInclusive(amountDiff) ==
    amountDiff.t = "num" /\ amountDiff.n >= Tolerance

\* amountDiff > 0.01: a comparison with NaN is false
ExceedsTolerance(amountDiff) == amountDiff.t = "num" /\ amountDiff.n > Tolerance

\* mutant: the amounts are compared without the null checks
AmountMismatchUnguarded(internalRecord, providerRecord) ==
    ExceedsTolerance(AmountDiff(internalRecord.amount, providerRecord.amount))

\* the two conditions under which amountMatch is set to false
AmountMismatch(internalRecord, providerRecord) ==
    /\ internalRecord.amount # Null
    /\ providerRecord.amount # Null
    /\ ExceedsTolerance(AmountDiff(internalRecord.amount, providerRecord.amount))

\* the two conditions under which statusMatch is set to false
StatusMismatch(internalRecord, providerRecord) ==
    /\ Truthy(internalRecord.status)
    /\ Truthy(providerRecord.status)
    /\ internalRecord.status # providerRecord.status

\* mutant: internalOnly is declared outside the callback and keeps the records
\* of the previous run
ArraysKeptAcrossRuns ==
    [heap |-> <<>>, matched |-> <<>>,
     internalOnly |-> IF reconciliationResults = Null THEN <<>>
                      ELSE reconciliationResults.internalOnly,
     amountMismatches |-> <<>>, statusMismatches |-> <<>>]

\* the arrays of the run hold references to objects: heap is the sequence of the
\* matchResult objects created so far, and matched, amountMismatches and
\* statusMismatches hold their addresses
EmptyArrays ==
    [heap |-> <<>>, matched |-> <<>>, internalOnly |-> <<>>,
     amountMismatches |-> <<>>, statusMismatches |-> <<>>]

\* mutant: amountMismatches receives a copy of the matchResult, taken before
\* the status check
PushMatchCopying(acc, internalRecord, providerRecord) ==
    LET addr == Len(acc.heap) + 1
        matchResult == [transaction_reference |-> internalRecord.transaction_reference,
                        internal |-> internalRecord,
                        provider |-> providerRecord,
                        amountMatch |-> TRUE,
                        statusMatch |-> TRUE]
        acc0 == [acc EXCEPT !.heap = Append(@, matchResult)]
        acc1 == IF AmountMismatch(internalRecord, providerRecord)
                THEN [acc0 EXCEPT
                        !.heap = Append([@ EXCEPT ![addr].amountMatch = FALSE],
                                        [matchResult EXCEPT !.amountMatch = FALSE]),
                        !.amountMismatches = Append(@, addr + 1)]
                ELSE acc0
        acc2 == IF StatusMismatch(internalRecord, providerRecord)
                THEN [acc1 EXCEPT !.heap[addr].statusMatch = FALSE,
                                  !.statusMismatches = Append(@, addr)]
                ELSE acc1
    IN  [acc2 EXCEPT !.matched = Append(@, addr)]

\* the branch for an internal record whose reference the provider map holds:
\* the matchResult is created, flagged in place, and pushed
PushMatch(acc, internalRecord, providerRecord) ==
    LET addr == Len(acc.heap) + 1
        matchResult == [transaction_reference |-> internalRecord.transaction_reference,
                        internal |-> internalRecord,
                        provider |-> providerRecord,
                        amountMatch |-> TRUE,
                        statusMatch |-> TRUE]
        acc0 == [acc EXCEPT !.heap = Append(@, matchResult)]
        acc1 == IF AmountMismatch(internalRecord, providerRecord)
                THEN [acc0 EXCEPT !.heap[addr].amountMatch = FALSE,
                                  !.amountMismatches = Append(@, addr)]
                ELSE acc0
        acc2 == IF StatusMismatch(internalRecord, providerRecord)
                THEN [acc1 EXCEPT !.heap[addr].statusMatch = FALSE,
                                  !.statusMismatches = Append(@, addr)]
                ELSE acc1
    IN  [acc2 EXCEPT !.matched = Append(@, addr)]

\* mutant: the push to internalOnly is forgotten
PushInternalOnlyDropped(acc, internalRecord) == acc

\* the branch for an internal record the provider map lacks
PushInternalOnly(acc, internalRecord) ==
    [acc EXCEPT !.internalOnly = Append(@, internalRecord)]

\* one iteration of internalData.forEach(internalRecord => ...)
CheckInternalRecord(acc, internalRecord, provider) ==
    IF MapHas(provider, internalRecord.transaction_reference)
    THEN PushMatch(acc, internalRecord,
                   MapGet(provider, internalRecord.transaction_reference))
    ELSE PushInternalOnly(acc, internalRecord)

\* internalData.forEach, from record i on
RECURSIVE CheckInternalRecords(_, _, _, _)
CheckInternalRecords(acc, internal, provider, i) ==
    IF i > Len(internal) THEN acc
    ELSE CheckInternalRecords(CheckInternalRecord(acc, internal[i], provider),
                              internal, provider, i + 1)

\* mutant: every provider record is reported as provider-only
ProviderOnlyUnfiltered(internal, provider) == provider

\* mutant: the provider records are tested against the provider map
ProviderOnlyWrongMap(internal, provider) ==
    LET NotInProvider(record) == ~MapHas(provider, record.transaction_reference)
    IN  SelectSeq(provider, NotInProvider)

\* providerData.forEach: the records whose reference the internal map lacks
ProviderOnly(internal, provider) ==
    LET NotInInternal(record) == ~MapHas(internal, record.transaction_reference)
    IN  SelectSeq(provider, NotInInternal)

\* the objects an array of addresses refers to, as they are when published
Deref(heap, addrs) == [k \in 1..Len(addrs) |-> heap[addrs[k]]]

\* the object handed to setReconciliationResults
Reconcile(internal, provider) ==
    LET acc == CheckInternalRecords(EmptyArrays, internal, provider, 1)
        matched == Deref(acc.heap, acc.matched)
        providerOnly == ProviderOnly(internal, provider)
        amountMismatches == Deref(acc.heap, acc.amountMismatches)
        statusMismatches == Deref(acc.heap, acc.statusMismatches)
    IN  [matched |-> matched,
         internalOnly |-> acc.internalOnly,
         providerOnly |-> providerOnly,
         amountMismatches |-> amountMismatches,
         statusMismatches |-> statusMismatches,
         summary |-> [totalInternal |-> Len(internal),
                      totalProvider |-> Len(provider),
                      matchedCount |-> Len(matched),
                      internalOnlyCount |-> Len(acc.internalOnly),
                      providerOnlyCount |-> Len(providerOnly),
                      amountMismatchCount |-> Len(amountMismatches),
                      statusMismatchCount |-> Len(statusMismatches)]]

----------------------------------------------------------------------------
(* Files: what Papa.parse reports for a file *)

\* readable: FALSE when reading fails (the `error` callback); errors: the length
\* of results.errors; fields: results.meta.fields; data: results.data
File(readable, errors, fields, data) ==
    [readable |-> readable, errors |-> errors, fields |-> fields, data |-> data]

ParsedFile(data) == File(TRUE, 0, Headers, data)

RefA == Str(<<"A">>)
StatusOK == Str(<<"O", "K">>)

\* raw cell values that dynamicTyping can produce
RawReferences ==
    {Null, Num(0), Num(7), Bool(FALSE), Str(<<" ">>),
     RefA, Str(<<" ", "A">>), Str(<<"B">>)}
RawAmounts == {Null, Num(0), Num(1), Num(3), Num(4), Str(<<"x">>)}
RawStatuses ==
    {Null, Num(0), Bool(FALSE), Str(<<" ">>),
     StatusOK, Str(<<" ", "o", "k">>), Str(<<"N", "O">>)}

\* one-row files: every reference, and every amount with every status
SingleRows ==
    {Row(r, Num(1), StatusOK) : r \in RawReferences}
        \cup {Row(RefA, a, s) : a \in RawAmounts, s \in RawStatuses}

\* the rows of the files with several rows
SmallRows ==
    {Row(RefA, Num(1), StatusOK),
     Row(Str(<<"A", " ">>), Num(4), Str(<<"N", "O">>)),
     Row(RefA, Num(4), Str(<<"o", "k">>)),
     Row(Str(<<"B">>), Null, StatusOK),
     Row(Num(7), Num(3), Null)}

RowSeqs(n) == UNION {[1..k -> SmallRows] : k \in 2..n}

\* the files a user may have loaded before starting runs
EngineFiles ==
    {ParsedFile(<<>>)} \cup {ParsedFile(<<row>>) : row \in SingleRows}
        \cup {ParsedFile(rows) : rows \in RowSeqs(MaxRows)}

\* the files offered to the upload control
Files ==
    {ParsedFile(<<Row(RefA, Num(1), StatusOK)>>),
     ParsedFile(<<Row(RefA, Num(4), Str(<<"N", "O">>)),
                  Row(RefA, Num(1), StatusOK)>>),
     ParsedFile(<<Row(Null, Num(1), StatusOK)>>),
     File(TRUE, 1, Headers, <<Row(RefA, Num(1), StatusOK)>>),
     File(TRUE, 0, {"amount", "status"}, <<Row(Null, Num(1), StatusOK)>>),
     File(FALSE, 0, {}, <<>>)}

----------------------------------------------------------------------------
(* The component *)

Types == {"internal", "provider"}

NoError == "null"
ParsingError == "CSV parsing error"
MissingColumnsError == "Missing required columns: transaction_reference"
ReadingError == "File reading error"

\* no file was chosen in either file input
NoSelection == [internal |-> Null, provider |-> Null]

\* the state after the first render
Init ==
    /\ internalFile = Null
    /\ providerFile = Null
    /\ internalData = <<>>
    /\ providerData = <<>>
    /\ reconciliationResults = Null
    /\ isProcessing = FALSE
    /\ showResults = FALSE
    /\ uploadErrors = [internal |-> NoError, provider |-> NoError]
    /\ parsing = EmptyBag
    /\ runTimers = <<>>
    /\ revealTimer = FALSE
    /\ selected = NoSelection

\* the state after both sides have loaded a file, before any run
InitEngine ==
    /\ internalFile \in EngineFiles
    /\ providerFile \in EngineFiles
    /\ internalData = ProcessedData(internalFile.data)
    /\ providerData = ProcessedData(providerFile.data)
    /\ reconciliationResults = Null
    /\ isProcessing = FALSE
    /\ showResults = FALSE
    /\ uploadErrors = [internal |-> NoError, provider |-> NoError]
    /\ parsing = EmptyBag
    /\ runTimers = <<>>
    /\ revealTimer = FALSE
    /\ selected = NoSelection

Call(type, file) == [type |-> type, file |-> file]

\* mutant: the side's error is not cleared when an upload starts
HandleFileUploadKeepingError(type, file) ==
    /\ parsing' = parsing (+) SetToBag({Call(type, file)})
    /\ UNCHANGED <<internalFile, providerFile, internalData, providerData,
                   reconciliationResults, isProcessing, showResults,
                   uploadErrors, runTimers, revealTimer>>

\* handleFileUpload(file, type), up to the call of Papa.parse
HandleFileUpload(type, file) ==
    /\ uploadErrors' = [uploadErrors EXCEPT ![type] = NoError]
    /\ parsing' = parsing (+) SetToBag({Call(type, file)})
    /\ UNCHANGED <<internalFile, providerFile, internalData, providerData,
                   reconciliationResults, isProcessing, showResults,
                   runTimers, revealTimer>>

\* error: the file could not be read
ReadError(call) ==
    /\ BagIn(call, parsing)
    /\ ~call.file.readable
    /\ parsing' = parsing (-) SetToBag({call})
    /\ uploadErrors' = [uploadErrors EXCEPT ![call.type] = ReadingError]
    /\ UNCHANGED <<internalFile, providerFile, internalData, providerData,
                   reconciliationResults, isProcessing, showResults,
                   runTimers, revealTimer>>
    /\ UNCHANGED selected

\* mutant: the error object is replaced instead of updated with ...prev
CompleteWithErrorsReplacing(call) ==
    /\ BagIn(call, parsing)
    /\ call.file.readable
    /\ call.file.errors > 0
    /\ parsing' = parsing (-) SetToBag({call})
    /\ uploadErrors' =
           [internal |-> IF call.type = "internal" THEN ParsingError ELSE NoError,
            provider |-> IF call.type = "provider" THEN ParsingError ELSE NoError]
    /\ UNCHANGED <<internalFile, providerFile, internalData, providerData,
                   reconciliationResults, isProcessing, showResults,
                   runTimers, revealTimer>>
    /\ UNCHANGED selected

\* complete, results.errors.length > 0
CompleteWithErrors(call) ==
    /\ BagIn(call, parsing)
    /\ call.file.readable
    /\ call.file.errors > 0
    /\ parsing' = parsing (-) SetToBag({call})
    /\ uploadErrors' = [uploadErrors EXCEPT ![call.type] = ParsingError]
    /\ UNCHANGED <<internalFile, providerFile, internalData, providerData,
                   reconciliationResults, isProcessing, showResults,
                   runTimers, revealTimer>>
    /\ UNCHANGED selected

\* mutant: the side is emptied when the column is missing
CompleteMissingColumnsClearing(call) ==
    /\ BagIn(call, parsing)
    /\ call.file.readable
    /\ call.file.errors = 0
    /\ "transaction_reference" \notin call.file.fields
    /\ parsing' = parsing (-) SetToBag({call})
    /\ uploadErrors' = [uploadErrors EXCEPT ![call.type] = MissingColumnsError]
    /\ IF call.type = "internal"
       THEN /\ internalData' = <<>>
            /\ internalFile' = Null
            /\ UNCHANGED <<providerData, providerFile>>
       ELSE /\ providerData' = <<>>
            /\ providerFile' = Null
            /\ UNCHANGED <<internalData, internalFile>>
    /\ UNCHANGED <<reconciliationResults, isProcessing, showResults,
                   runTimers, revealTimer>>
    /\ UNCHANGED selected

\* complete, transaction_reference is not among the headers
CompleteMissingColumns(call) ==
    /\ BagIn(call, parsing)
    /\ call.file.readable
    /\ call.file.errors = 0
    /\ "transaction_reference" \notin call.file.fields
    /\ parsing' = parsing (-) SetToBag({call})
    /\ uploadErrors' = [uploadErrors EXCEPT ![call.type] = MissingColumnsError]
    /\ UNCHANGED <<internalFile, providerFile, internalData, providerData,
                   reconciliationResults, isProcessing, showResults,
                   runTimers, revealTimer>>
    /\ UNCHANGED selected

\* complete, the rows are normalised and stored
CompleteLoaded(call) ==
    /\ BagIn(call, parsing)
    /\ call.file.readable
    /\ call.file.errors = 0
    /\ "transaction_reference" \in call.file.fields
    /\ parsing' = parsing (-) SetToBag({call})
    /\ IF call.type = "internal"
       THEN /\ internalData' = ProcessedData(call.file.data)
            /\ internalFile' = call.file
            /\ UNCHANGED <<providerData, providerFile>>
       ELSE /\ providerData' = ProcessedData(call.file.data)
            /\ providerFile' = call.file
            /\ UNCHANGED <<internalData, internalFile>>
    /\ UNCHANGED <<reconciliationResults, isProcessing, showResults,
                   uploadErrors, runTimers, revealTimer>>
    /\ UNCHANGED selected

\* mutant: no check of the lengths, neither in the button nor in the handler
PerformReconciliationOnEmpty ==
    /\ ~isProcessing
    /\ isProcessing' = TRUE
    /\ showResults' = FALSE
    /\ runTimers' = Append(runTimers, [internalData |-> internalData,
                                       providerData |-> providerData])
    /\ UNCHANGED <<internalFile, providerFile, internalData, providerData,
                   reconciliationResults, uploadErrors, parsing, revealTimer>>
    /\ UNCHANGED selected

\* mutant: the button is not disabled while a run is in progress
PerformReconciliationWhileProcessing ==
    /\ internalData # <<>>
    /\ providerData # <<>>
    /\ isProcessing' = TRUE
    /\ showResults' = FALSE
    /\ runTimers' = Append(runTimers, [internalData |-> internalData,
                                       providerData |-> providerData])
    /\ UNCHANGED <<internalFile, providerFile, internalData, providerData,
                   reconciliationResults, uploadErrors, parsing, revealTimer>>
    /\ UNCHANGED selected

\* a click on Start Reconciliation; the button is disabled unless both sides
\* hold records and no run is in progress
PerformReconciliation ==
    /\ internalData # <<>>
    /\ providerData # <<>>
    /\ ~isProcessing
    /\ isProcessing' = TRUE
    /\ showResults' = FALSE
    /\ runTimers' = Append(runTimers, [internalData |-> internalData,
                                       providerData |-> providerData])
    /\ UNCHANGED <<internalFile, providerFile, internalData, providerData,
                   reconciliationResults, uploadErrors, parsing, revealTimer>>
    /\ UNCHANGED selected

\* mutant: the callback clears the upload errors
RunTimeoutClearingErrors ==
    /\ runTimers # <<>>
    /\ ~revealTimer
    /\ reconciliationResults' =
           Reconcile(Head(runTimers).internalData, Head(runTimers).providerData)
    /\ isProcessing' = FALSE
    /\ revealTimer' = TRUE
    /\ runTimers' = Tail(runTimers)
    /\ uploadErrors' = [internal |-> NoError, provider |-> NoError]
    /\ UNCHANGED <<internalFile, providerFile, internalData, providerData,
                   showResults, parsing>>
    /\ UNCHANGED selected

\* mutant: the callback reads the records loaded when it fires
RunTimeoutReadingState ==
    /\ runTimers # <<>>
    /\ ~revealTimer
    /\ reconciliationResults' = Reconcile(internalData, providerData)
    /\ isProcessing' = FALSE
    /\ revealTimer' = TRUE
    /\ runTimers' = Tail(runTimers)
    /\ UNCHANGED <<internalFile, providerFile, internalData, providerData,
                   showResults, uploadErrors, parsing>>
    /\ UNCHANGED selected

\* the callback of the oldest setTimeout(..., 2000); a 300 ms timer that is
\* pending was set before this timer and fires first
RunTimeout ==
    /\ runTimers # <<>>
    /\ ~revealTimer
    /\ reconciliationResults' =
           Reconcile(Head(runTimers).internalData, Head(runTimers).providerData)
    /\ isProcessing' = FALSE
    /\ revealTimer' = TRUE
    /\ runTimers' = Tail(runTimers)
    /\ UNCHANGED <<internalFile, providerFile, internalData, providerData,
                   showResults, uploadErrors, parsing>>
    /\ UNCHANGED selected

\* the callback of setTimeout(..., 300)
RevealTimeout ==
    /\ revealTimer
    /\ showResults' = TRUE
    /\ revealTimer' = FALSE
    /\ UNCHANGED <<internalFile, providerFile, internalData, providerData,
                   reconciliationResults, isProcessing, uploadErrors,
                   parsing, runTimers>>
    /\ UNCHANGED selected

\* mutant: reset clears the pending run timers and leaves isProcessing as it is
ResetReconciliationCancelling ==
    /\ internalFile' = Null
    /\ providerFile' = Null
    /\ internalData' = <<>>
    /\ providerData' = <<>>
    /\ reconciliationResults' = Null
    /\ showResults' = FALSE
    /\ uploadErrors' = [internal |-> NoError, provider |-> NoError]
    /\ runTimers' = <<>>
    /\ UNCHANGED <<isProcessing, parsing, revealTimer>>

\* a click on Reset
ResetReconciliation ==
    /\ internalFile' = Null
    /\ providerFile' = Null
    /\ internalData' = <<>>
    /\ providerData' = <<>>
    /\ reconciliationResults' = Null
    /\ showResults' = FALSE
    /\ uploadErrors' = [internal |-> NoError, provider |-> NoError]
    /\ UNCHANGED <<isProcessing, parsing, runTimers, revealTimer>>

Next ==
    \/ \E type \in Types, file \in Files :
           BagCardinality(parsing) < MaxPending /\ HandleFileUpload(type, file)
           /\ UNCHANGED selected
    \/ \E call \in BagToSet(parsing) : ReadError(call)
    \/ \E call \in BagToSet(parsing) : CompleteWithErrors(call)
    \/ \E call \in BagToSet(parsing) : CompleteMissingColumns(call)
    \/ \E call \in BagToSet(parsing) : CompleteLoaded(call)
    \/ PerformReconciliation
    \/ RunTimeout
    \/ RevealTimeout
    \/ ResetReconciliation /\ UNCHANGED selected

\* the whole component
Spec == Init /\ [][Next]_vars

NextEngine ==
    \/ PerformReconciliation
    \/ RunTimeout
    \/ RevealTimeout

\* runs on loaded data: no upload and no reset
SpecEngine == InitEngine /\ [][NextEngine]_vars

\* no file shown for the side and no call in flight for it
Untouched(type) ==
    /\ (IF type = "internal" THEN internalFile ELSE providerFile) = Null
    /\ \A call \in BagToSet(parsing) : call.type # type

NextNormalize ==
    \/ \E type \in Types, file \in EngineFiles :
           Untouched(type) /\ HandleFileUpload(type, file) /\ UNCHANGED selected
    \/ \E call \in BagToSet(parsing) : CompleteLoaded(call)

\* the first upload of each side, of any file that parses
SpecNormalize == Init /\ [][NextNormalize]_vars

\* the change event of a file input: the chosen file is recorded and handed to
\* handleFileUpload
ChooseFile(type, file) ==
    /\ HandleFileUpload(type, file)
    /\ selected' = [selected EXCEPT ![type] = file]

\* a click on Reset, after which no file counts as chosen
ClickReset ==
    /\ ResetReconciliation
    /\ selected' = NoSelection

NextUpload ==
    \/ \E type \in Types, file \in Files :
           BagCardinality(parsing) < MaxInFlight /\ ChooseFile(type, file)
    \/ \E call \in BagToSet(parsing) : ReadError(call)
    \/ \E call \in BagToSet(parsing) : CompleteWithErrors(call)
    \/ \E call \in BagToSet(parsing) : CompleteMissingColumns(call)
    \/ \E call \in BagToSet(parsing) : CompleteLoaded(call)
    \/ ClickReset
\* uploads and resets, with several calls in flight and no run
SpecUpload == Init /\ [][NextUpload]_vars

\* the files of the upload control that parse and have the reference column
LoadableFiles ==
    {file \in Files : /\ file.readable
                      /\ file.errors = 0
                      /\ "transaction_reference" \in file.fields}

\* the loadable files of one row: that the timers fire does not depend on the
\* rows, and the fairness conditions are evaluated in every state
LiveFiles == {file \in LoadableFiles : Len(file.data) = 1}

NextLive ==
    \/ \E type \in Types, file \in LiveFiles :
           BagCardinality(parsing) < MaxPending /\ HandleFileUpload(type, file)
           /\ UNCHANGED selected
    \/ \E call \in BagToSet(parsing) : CompleteLoaded(call)
    \/ PerformReconciliation
    \/ RunTimeout
    \/ RevealTimeout
    \/ ResetReconciliation /\ UNCHANGED selected

\* runs, uploads that load and resets; a timer that is due fires
SpecLive ==
    /\ Init
    /\ [][NextLive]_vars
    /\ WF_vars(RunTimeout)
    /\ WF_vars(RevealTimeout)

----------------------------------------------------------------------------
(* Properties of a published result.  Under SpecEngine the loaded data never *)
(* changes, so a published result is the result of a run on internalData and *)
(* providerData.                                                             *)

Published == reconciliationResults # Null

results == reconciliationResults

\* the references that occur in a sequence of records
References(data) == {data[i].transaction_reference : i \in 1..Len(data)}

\* the number of records of data with reference ref
Occurrences(data, ref) ==
    Cardinality({i \in 1..Len(data) : data[i].transaction_reference = ref})

HasDuplicates(data) == \E ref \in References(data) : Occurrences(data, ref) > 1

\* C1: for every pair of non-empty inputs, duplicated references included, the
\* published summary has matchedCount + providerOnlyCount = totalProvider.
\* The code breaks this when a reference is duplicated on either side.
C1_ProviderCountIdentity ==
    Published =>
        results.summary.matchedCount + results.summary.providerOnlyCount
            = results.summary.totalProvider

\* C2: for every pair of non-empty inputs, duplicated references included, the
\* published summary has matchedCount + internalOnlyCount = totalInternal, and
\* totalInternal is the number of internal records.
C2_InternalCountIdentity ==
    Published =>
        /\ results.summary.matchedCount + results.summary.internalOnlyCount
               = results.summary.totalInternal
        /\ results.summary.totalInternal = Len(internalData)
        /\ results.summary.matchedCount = Len(results.matched)
        /\ results.summary.internalOnlyCount = Len(results.internalOnly)

\* C2 witness: a published result for inputs with a duplicated reference on
\* both sides, the duplicated internal records matched
C2_Witness ==
    /\ Published
    /\ HasDuplicates(internalData)
    /\ HasDuplicates(providerData)
    /\ results.summary.matchedCount >= 2

InProvider(record) == record.transaction_reference \in References(providerData)
NotInProvider(record) == record.transaction_reference \notin References(providerData)
NotInInternal(record) == record.transaction_reference \notin References(internalData)

\* C3: matched has one entry per internal record whose reference occurs among
\* the provider records, in internal order; internalOnly is the remaining
\* internal records in internal order; providerOnly is the provider records
\* whose reference no internal record has, in provider order; with disjoint
\* reference sets matched is empty and the other two are the inputs.
C3_ClassificationByReference ==
    Published =>
        /\ [k \in 1..Len(results.matched) |-> results.matched[k].internal]
               = SelectSeq(internalData, InProvider)
        /\ \A k \in 1..Len(results.matched) :
               results.matched[k].transaction_reference
                   = results.matched[k].internal.transaction_reference
        /\ results.internalOnly = SelectSeq(internalData, NotInProvider)
        /\ results.providerOnly = SelectSeq(providerData, NotInInternal)
        /\ (References(internalData) \cap References(providerData) = {} =>
               /\ results.matched = <<>>
               /\ results.internalOnly = internalData
               /\ results.providerOnly = providerData)

\* C3 witness: a published result with a matched record, an internal-only
\* record and a provider-only record
C3_Witness ==
    /\ Published
    /\ results.matched # <<>>
    /\ results.internalOnly # <<>>
    /\ results.providerOnly # <<>>

\* C3 witness of the disjoint case: two records a side, nothing matched
C3_WitnessDisjoint ==
    /\ Published
    /\ Len(internalData) = 2
    /\ Len(providerData) = 2
    /\ results.matched = <<>>

\* the matched entries, by position
MatchedIndexes == 1..Len(results.matched)

\* more than the tolerance apart, for two amounts that are numbers
FartherThanTolerance(a, b) ==
    /\ a.t = "num"
    /\ b.t = "num"
    /\ (a.n - b.n > Tolerance \/ b.n - a.n > Tolerance)

\* e occurs in the sequence seq
OccursIn(e, seq) == \E k \in 1..Len(seq) : seq[k] = e

\* C4: a matched pair has amountMatch = FALSE exactly when both amounts are
\* non-null and more than the tolerance apart; at exactly the tolerance
\* amountMatch is TRUE and the pair is not in amountMismatches.
C4_AmountTolerance ==
    Published =>
        \A k \in MatchedIndexes :
            LET m == results.matched[k] IN
            /\ m.amountMatch = FALSE <=>
                   /\ m.internal.amount # Null
                   /\ m.provider.amount # Null
                   /\ FartherThanTolerance(m.internal.amount, m.provider.amount)
            /\ (/\ m.internal.amount.t = "num"
                /\ m.provider.amount.t = "num"
                /\ ~FartherThanTolerance(m.internal.amount, m.provider.amount))
                   => m.amountMatch /\ ~OccursIn(m, results.amountMismatches)

\* C4 witness: a matched pair whose amounts are exactly the tolerance apart
C4_Witness ==
    /\ Published
    /\ \E k \in MatchedIndexes :
           LET m == results.matched[k] IN
           /\ m.internal.amount.t = "num"
           /\ m.provider.amount.t = "num"
           /\ m.internal.amount.n - m.provider.amount.n = Tolerance
           /\ m.amountMatch

\* C5: a matched pair has statusMatch = FALSE exactly when both statuses are
\* non-null and differ, an empty (whitespace-only) status included.  The code
\* skips the comparison when a status is the empty string.
C5_StatusMismatchIffNonNullAndDifferent ==
    Published =>
        \A k \in MatchedIndexes :
            LET m == results.matched[k] IN
            m.statusMatch = FALSE <=>
                /\ m.internal.status # Null
                /\ m.provider.status # Null
                /\ m.internal.status # m.provider.status

\* C6: a matched pair with a null amount on either side has amountMatch = TRUE
\* and is not in amountMismatches; one with a null status on either side has
\* statusMatch = TRUE and is not in statusMismatches.
C6_NullNeverMismatches ==
    Published =>
        \A k \in MatchedIndexes :
            LET m == results.matched[k] IN
            /\ (m.internal.amount = Null \/ m.provider.amount = Null)
                   => m.amountMatch /\ ~OccursIn(m, results.amountMismatches)
            /\ (m.internal.status = Null \/ m.provider.status = Null)
                   => m.statusMatch /\ ~OccursIn(m, results.statusMismatches)

\* C6 witness: a matched pair with a null amount and a null status on one side
\* and, on the other side, an amount farther than the tolerance from 0 and a
\* status
C6_Witness ==
    /\ Published
    /\ \E k \in MatchedIndexes :
           LET m == results.matched[k] IN
           /\ m.internal.amount = Null
           /\ m.internal.status = Null
           /\ m.provider.amount.t = "num"
           /\ m.provider.amount.n > Tolerance
           /\ m.provider.status.t = "str"
           /\ m.provider.status.s # <<>>

\* s without its leading and trailing blanks
Stripped(s) ==
    LET inked == {i \in 1..Len(s) : s[i] # " "} IN
    IF inked = {} THEN <<>>
    ELSE SubSeq(s, CHOOSE i \in inked : \A j \in inked : i <= j,
                   CHOOSE i \in inked : \A j \in inked : i >= j)

\* the same character, or the two cases of one letter
SameLetter(c, d) ==
    \/ c = d
    \/ \E i \in 1..Len(UpperChars) : {c, d} = {UpperChars[i], LowerChars[i]}

\* two raw statuses that differ at most by letter case and surrounding blanks
SameStatusText(x, y) ==
    \/ x = y
    \/ /\ x.t = "str"
       /\ y.t = "str"
       /\ Len(Stripped(x.s)) = Len(Stripped(y.s))
       /\ \A i \in 1..Len(Stripped(x.s)) :
              SameLetter(Stripped(x.s)[i], Stripped(y.s)[i])

\* two raw amounts that are equal, or numbers at most the tolerance apart
SameAmountWithinTolerance(x, y) ==
    \/ x = y
    \/ /\ x.t = "num"
       /\ y.t = "num"
       /\ x.n - y.n <= Tolerance
       /\ y.n - x.n <= Tolerance

\* one row a side, both kept, with the same reference, statuses that differ at
\* most by case and surrounding blanks, and amounts within the tolerance
AgreeingRows ==
    /\ Len(internalFile.data) = 1
    /\ Len(providerFile.data) = 1
    /\ Len(internalData) = 1
    /\ Len(providerData) = 1
    /\ internalData[1].transaction_reference = providerData[1].transaction_reference
    /\ SameStatusText(internalFile.data[1].status, providerFile.data[1].status)
    /\ SameAmountWithinTolerance(internalFile.data[1].amount,
                                 providerFile.data[1].amount)

\* C7: end to end, two uploaded rows sharing a reference, with raw statuses that
\* differ only by case or surrounding whitespace and amounts within the
\* tolerance, give exactly one matched entry with amountMatch and statusMatch
\* TRUE and nothing in amountMismatches or statusMismatches.
C7_AgreeingRowsMatch ==
    (Published /\ AgreeingRows) =>
        /\ Len(results.matched) = 1
        /\ results.matched[1].amountMatch
        /\ results.matched[1].statusMatch
        /\ results.amountMismatches = <<>>
        /\ results.statusMismatches = <<>>

\* C7 witness: agreeing rows whose raw statuses differ in case and in blanks and
\* whose raw amounts differ, published
C7_Witness ==
    /\ Published
    /\ AgreeingRows
    /\ internalFile.data[1].status = StatusOK
    /\ providerFile.data[1].status = Str(<<" ", "o", "k">>)
    /\ internalFile.data[1].amount # providerFile.data[1].amount

NoAmountMatch(m) == ~m.amountMatch
NoStatusMatch(m) == ~m.statusMatch

\* C8: amountMismatches is the subsequence of matched of the entries with
\* amountMatch = FALSE, statusMismatches the subsequence of those with
\* statusMatch = FALSE; an entry of amountMismatches carries the final
\* statusMatch of its entry in matched.
C8_MismatchesAreSubsequences ==
    Published =>
        /\ results.amountMismatches = SelectSeq(results.matched, NoAmountMatch)
        /\ results.statusMismatches = SelectSeq(results.matched, NoStatusMatch)
        /\ results.summary.amountMismatchCount = Len(results.amountMismatches)
        /\ results.summary.statusMismatchCount = Len(results.statusMismatches)

\* C8 witness: two matched entries, one of them in amountMismatches with
\* statusMatch = FALSE, the other in neither list
C8_Witness ==
    /\ Published
    /\ Len(results.matched) = 2
    /\ Len(results.amountMismatches) = 1
    /\ Len(results.statusMismatches) = 1
    /\ ~results.amountMismatches[1].statusMatch

\* the position of the last record of data with reference ref
LastIndex(data, ref) ==
    CHOOSE j \in 1..Len(data) :
        /\ data[j].transaction_reference = ref
        /\ \A i \in 1..Len(data) : data[i].transaction_reference = ref => i <= j

\* C9: when a reference occurs k >= 1 times among the internal records and at
\* least once among the provider records, all k internal records are in
\* matched, each paired with the last provider record of that reference.
C9_LastWriteWins ==
    Published =>
        /\ \A ref \in References(internalData) \cap References(providerData) :
               Cardinality({k \in MatchedIndexes :
                               results.matched[k].transaction_reference = ref})
                   = Occurrences(internalData, ref)
        /\ \A k \in MatchedIndexes :
               LET m == results.matched[k] IN
               /\ m.transaction_reference \in References(providerData)
               /\ m.provider
                      = providerData[LastIndex(providerData, m.transaction_reference)]

\* C9 witness: a reference twice on the internal side and twice, with different
\* records, on the provider side
C9_Witness ==
    /\ Published
    /\ Len(results.matched) = 2
    /\ results.matched[1].transaction_reference
           = results.matched[2].transaction_reference
    /\ Len(providerData) = 2
    /\ providerData[1].transaction_reference = providerData[2].transaction_reference
    /\ providerData[1] # providerData[2]

----------------------------------------------------------------------------
(* Properties of the upload normalisation, of the upload events and of the  *)
(* run timers                                                               *)

FileOf(type) == IF type = "internal" THEN internalFile ELSE providerFile
DataOf(type) == IF type = "internal" THEN internalData ELSE providerData
Other(type) == IF type = "internal" THEN "provider" ELSE "internal"

\* a raw value coerced to a string, an absent value being the empty string
TextOf(v) == IF v = Null THEN <<>> ELSE String(v)

\* the raw reference is not empty once coerced to a string and trimmed
ReferenceNotEmpty(row) == Stripped(TextOf(row.transaction_reference)) # <<>>

\* a side that shows a file all of whose rows were kept
AllRowsKept(type) ==
    /\ FileOf(type) # Null
    /\ Len(DataOf(type)) = Len(FileOf(type).data)

\* C11: a parsed row is discarded exactly when its raw reference, coerced to a
\* string and trimmed, is empty; a raw reference 0 or false is kept as "0" or
\* "false".  The code discards the rows whose raw reference is 0 or false.
C11_DiscardIffEmptyReference ==
    \A type \in Types :
        FileOf(type) # Null =>
            LET kept == SelectSeq(FileOf(type).data, ReferenceNotEmpty) IN
            [k \in 1..Len(DataOf(type)) |-> DataOf(type)[k].transaction_reference]
                = [k \in 1..Len(kept) |->
                       Stripped(TextOf(kept[k].transaction_reference))]

\* C12: the amount of a record is null exactly when the raw amount is absent;
\* a raw number, 0 included, is stored as that number.  The code stores null
\* for a raw amount 0.
C12_AmountNullIffAbsent ==
    \A type \in Types :
        AllRowsKept(type) =>
            \A i \in 1..Len(DataOf(type)) :
                LET raw == FileOf(type).data[i].amount
                    amount == DataOf(type)[i].amount
                IN  /\ amount = Null <=> raw = Null
                    /\ raw.t = "num" => amount = raw

\* C13: the status of a record is null exactly when the raw status is absent;
\* a present raw status, 0, false and blank text included, is stored as its
\* string form, trimmed and lowercased.  The code stores null for 0 and false.
C13_StatusNullIffAbsent ==
    \A type \in Types :
        AllRowsKept(type) =>
            \A i \in 1..Len(DataOf(type)) :
                LET raw == FileOf(type).data[i].status
                    status == DataOf(type)[i].status
                IN  /\ status = Null <=> raw = Null
                    /\ raw # Null =>
                           status = Str(ToLowerCase(Stripped(String(raw))))

\* a call whose file parses without errors and lacks the reference column
LacksReferenceColumn(call) ==
    /\ call.file.readable
    /\ call.file.errors = 0
    /\ "transaction_reference" \notin call.file.fields

\* the callback of call runs in this step
Completes(call) == CopiesIn(call, parsing') < CopiesIn(call, parsing)

CallsOf(bag, type) == [call \in {c \in BagToSet(bag) : c.type = type} |->
                           CopiesIn(call, bag)]

\* C15: every upload event of one side (start, load, parse error, missing
\* column, read error) leaves the other side's records, file and error
\* unchanged, also with calls of both sides in flight.
C15_UploadLeavesOtherSide ==
    [][\A type \in Types :
           CallsOf(parsing', type) # CallsOf(parsing, type) =>
               /\ DataOf(Other(type))' = DataOf(Other(type))
               /\ FileOf(Other(type))' = FileOf(Other(type))
               /\ uploadErrors'[Other(type)] = uploadErrors[Other(type)]]_vars

\* C15 witness: calls of both sides in flight while one side shows an error and
\* the other holds records
C15_Witness ==
    /\ \E call \in BagToSet(parsing) : call.type = "internal"
    /\ \E call \in BagToSet(parsing) : call.type = "provider"
    /\ \E type \in Types :
           /\ uploadErrors[type] # NoError
           /\ DataOf(Other(type)) # <<>>

\* C16: a matched pair with a NaN amount on either side is published with
\* amountMatch = TRUE and is not in amountMismatches.
C16_NaNNeverMismatches ==
    Published =>
        \A k \in MatchedIndexes :
            LET m == results.matched[k] IN
            (m.internal.amount = NaN \/ m.provider.amount = NaN)
                => m.amountMatch /\ ~OccursIn(m, results.amountMismatches)

\* C16 witness: a published matched pair with NaN on one side and, on the
\* other, a number farther than the tolerance from 0
C16_Witness ==
    /\ Published
    /\ \E k \in MatchedIndexes :
           LET m == results.matched[k] IN
           /\ m.internal.amount = NaN
           /\ m.provider.amount.t = "num"
           /\ m.provider.amount.n > Tolerance

\* C17: at most one run timer is outstanding, and only while isProcessing.
C17_AtMostOneRun ==
    /\ Len(runTimers) <= 1
    /\ runTimers # <<>> <=> isProcessing

\* C17 witness: a run is pending after an earlier run has published
C17_Witness ==
    /\ Len(runTimers) = 1
    /\ Published

\* C18: nothing takes effect between the click that starts a run and the
\* publication of its result: while a run is pending no step changes the
\* loaded records or files.  In the component the result is published by a
\* timer 2 s after the click, and uploads and resets run in between.
C18_RunIsSynchronous ==
    [][runTimers # <<>> =>
           UNCHANGED <<internalData, providerData, internalFile, providerFile>>]_vars

\* C19: a run that was in progress when Reset was clicked publishes nothing
\* afterwards: from a state with a run pending, no file shown and no result,
\* the result stays null.  The pending timer still publishes.
C19_ResetDiscardsPendingRun ==
    [][(/\ runTimers # <<>>
        /\ internalFile = Null
        /\ providerFile = Null
        /\ reconciliationResults = Null)
           => reconciliationResults' = Null]_vars

\* C20: a started run always completes: the records held by its timer are the
\* records loaded at the click, the callback publishes the result of those
\* records and ends the processing state, and, the timers being fair, a
\* processing state always ends, whatever is uploaded or reset meanwhile.
C20_RunAlwaysCompletes ==
    /\ isProcessing ~> ~isProcessing
    /\ [][Len(runTimers') > Len(runTimers) =>
              runTimers'[Len(runTimers')] =
                  [internalData |-> internalData, providerData |-> providerData]]_vars
    /\ [][(runTimers # <<>> /\ runTimers' = Tail(runTimers)) =>
              /\ reconciliationResults' =
                     Reconcile(Head(runTimers).internalData,
                               Head(runTimers).providerData)
              /\ ~isProcessing']_vars

\* C20 witness: a result published after a reset that came during its run
C20_Witness ==
    /\ Published
    /\ ~isProcessing
    /\ internalFile = Null
    /\ providerFile = Null
    /\ internalData = <<>>
    /\ providerData = <<>>

----------------------------------------------------------------------------
(* Properties of the session: preconditions, recovery, frame, staleness     *)

EmptySide == internalData = <<>> \/ providerData = <<>>

\* C21: with zero loaded records on a side no run starts: no step from such a
\* state schedules a run timer or turns isProcessing on, the timers that are
\* pending hold records of both sides, and no published result has a zero
\* total.
C21_NoRunOnEmptySide ==
    /\ [][EmptySide =>
              /\ Len(runTimers') <= Len(runTimers)
              /\ isProcessing' => isProcessing]_vars
    /\ [](\A k \in 1..Len(runTimers) :
              runTimers[k].internalData # <<>> /\ runTimers[k].providerData # <<>>)
    /\ [](Published => /\ results.summary.totalInternal # 0
                       /\ results.summary.totalProvider # 0)

\* C21 witness: one side holds records, the other none, nothing is in
\* progress and nothing was published
C21_Witness ==
    /\ internalData # <<>>
    /\ providerData = <<>>
    /\ providerFile # Null
    /\ ~isProcessing
    /\ runTimers = <<>>
    /\ ~Published

\* an upload of the side starts in this step
Starts(type) ==
    \E call \in BagToSet(parsing') :
        call.type = type /\ CopiesIn(call, parsing') > CopiesIn(call, parsing)

\* C22: no error is fatal: in every state every side accepts the upload of any
\* file, the start of an upload clears the side's error, the run button works
\* whenever both sides hold records and no run is in progress, whatever errors
\* are shown, and a run in progress has its timer pending, with the 300 ms
\* callback before it, if any, able to fire.
C22_NoErrorIsFatal ==
    /\ [](\A type \in Types, file \in Files : ENABLED HandleFileUpload(type, file))
    /\ [][\A type \in Types : Starts(type) => uploadErrors'[type] = NoError]_vars
    /\ []((internalData # <<>> /\ providerData # <<>> /\ ~isProcessing)
              => ENABLED PerformReconciliation)
    /\ [](isProcessing => /\ runTimers # <<>>
                           /\ revealTimer => ENABLED RevealTimeout)

\* C22 witness: both sides show an error and a run can be started
C22_Witness ==
    /\ uploadErrors.internal # NoError
    /\ uploadErrors.provider # NoError
    /\ ENABLED PerformReconciliation

\* C23: a step of a run (click, 2000 ms callback, 300 ms callback) leaves the
\* loaded records, the files and the upload errors unchanged, and the result
\* is either left as it is or replaced by the whole result of the run.
C23_RunFrame ==
    [][(runTimers' # runTimers \/ revealTimer' # revealTimer) =>
           /\ UNCHANGED <<internalData, providerData, internalFile,
                          providerFile, uploadErrors>>
           /\ \/ reconciliationResults' = reconciliationResults
              \/ reconciliationResults' =
                     Reconcile(Head(runTimers).internalData,
                               Head(runTimers).providerData)]_vars

\* C23 witness: a result is shown while a side shows an error and holds records
C23_Witness ==
    /\ Published
    /\ showResults
    /\ uploadErrors.internal # NoError
    /\ internalData # <<>>
    /\ providerData # <<>>

\* C24: every provider record of the input is in providerOnly or is the
\* provider side of a matched entry, duplicated references included.  The
\* provider map keeps one record per reference, so the earlier records of a
\* duplicated reference that occurs on the internal side are in neither.
C24_NoProviderRecordLost ==
    Published =>
        \A j \in 1..Len(providerData) :
            \/ OccursIn(providerData[j], results.providerOnly)
            \/ \E k \in MatchedIndexes :
                   results.matched[k].provider = providerData[j]

MatchedReferences ==
    {results.matched[k].transaction_reference : k \in MatchedIndexes}

\* C25: in a published result no reference is in two of matched, internalOnly
\* and providerOnly.
C25_BucketsDisjoint ==
    Published =>
        /\ MatchedReferences \cap References(results.internalOnly) = {}
        /\ MatchedReferences \cap References(results.providerOnly) = {}
        /\ References(results.internalOnly)
               \cap References(results.providerOnly) = {}

\* C25 witness: a published result with the three buckets non-empty
C25_Witness ==
    /\ Published
    /\ results.matched # <<>>
    /\ results.internalOnly # <<>>
    /\ results.providerOnly # <<>>

\* C26: the totals of a published result are the numbers of records loaded
\* now.  An upload that completes after the run, or a reset during the run,
\* leaves a result of other records.
C26_ResultDescribesLoadedData ==
    Published =>
        /\ results.summary.totalInternal = Len(internalData)
        /\ results.summary.totalProvider = Len(providerData)

\* C27: a side that shows an upload error holds no records.  A failed upload
\* leaves the records of the earlier upload in place.
C27_ErrorMeansNoRecords ==
    \A type \in Types : uploadErrors[type] # NoError => DataOf(type) = <<>>

\* C29: while isProcessing the results are hidden, and results that are shown
\* exist.  The 300 ms callback of the previous run fires after a new click or
\* after a reset.
C29_ResultsHiddenWhileProcessing ==
    /\ isProcessing => ~showResults
    /\ showResults => Published

Max(a, b) == IF a >= b THEN a ELSE b

\* C30: every published result has both totals at least 1 and matchedCount at
\* most totalInternal, so the match rate has a non-zero divisor and lies
\* between 0 and 100 percent.
C30_MatchRateDefined ==
    Published =>
        LET summary == results.summary
            divisor == Max(summary.totalInternal, summary.totalProvider)
        IN  /\ summary.totalInternal >= 1
            /\ summary.totalProvider >= 1
            /\ summary.matchedCount <= summary.totalInternal
            /\ divisor > 0
            /\ 0 <= summary.matchedCount * 100
            /\ summary.matchedCount * 100 <= 100 * divisor

\* C30 witness: a result published while no record is loaded, of a duplicated
\* internal reference: more matches than provider records
C30_Witness ==
    /\ Published
    /\ internalData = <<>>
    /\ providerData = <<>>
    /\ results.summary.matchedCount > results.summary.totalProvider

InFlight(type) == \E call \in BagToSet(parsing) : call.type = type

\* C28: once no parse of a side is in flight, the side holds the file chosen
\* last for it, if that file loads, whatever the order of the callbacks; and a
\* side for which no file was chosen since the last reset stays empty.  The
\* callbacks store their file in the order they arrive, reset or not.
C28_LastChosenFileWins ==
    \A type \in Types :
        /\ selected[type] = Null =>
               FileOf(type) = Null /\ DataOf(type) = <<>>
        /\ (~InFlight(type) /\ selected[type] \in LoadableFiles) =>
               /\ FileOf(type) = selected[type]
               /\ DataOf(type) = ProcessedData(selected[type].data)

====
